---- MODULE Spec2Model ----
(***************************************************************************)
(* Model of the llm-gateway dispatcher: Proxy.ChatCompletionsHandler       *)
(* resolves the requested model in the configured catalog, walks           *)
(* [primary] + fallbacks, invokes the provider adapter of each candidate   *)
(* and adds the token usage of the first successful response to the        *)
(* Prometheus counters.  Around it: config.Load and NewProxy, which build  *)
(* the provider registry at startup, the caller's context, and the HTTP    *)
(* boundary (CreateChatCompletion, HandleError).                           *)
(*                                                                         *)
(* Optional values (Go nil pointers, a missing map entry) are sequences    *)
(* of length 0 or 1: <<>> is nil, <<v>> is a pointer to v.                 *)
(***************************************************************************)
EXTENDS Integers, Sequences, FiniteSets, TLC

\* ------------------------------------------------------------------------
\* Bounds of the explored configurations and inputs
\* ------------------------------------------------------------------------
MaxFallback == 2

Tasks == {1, 2}
ModelIDs == {"A", "B"}
\* Catalogs hold up to two entries: none, one model, two models, or two
\* entries of one model.
CatalogLengths == 0..2
TailFallbackLengths == 0..1
\* The catalogs are closed under renaming A and B, so requesting A covers
\* the requested model being absent, listed once, listed twice, first or last.
RequestModels == {"A"}
ProviderIDs == {"p1", "p2"}
Alias == [A |-> "a", B |-> "b"]
PromptCounts == {-1, 0, 2}
CompletionCounts == {0, 3}
TotalCounts == {0, 5}
MessageLists == {<<"user">>, <<"user", "robot">>}
\* The roles openaiMsgToLangchainMsg converts.
KnownRoles == {"user", "assistant", "system", "function", "tool"}
\* Provider entries of the configuration: up to two, with identifiers that
\* may repeat or be empty, of the synthetic kind, of a kind built by a
\* library constructor, or of a kind the gateway does not know.
ProviderListLengths == 0..2
ConfigProviderIDs == ProviderIDs \cup {""}
ProviderDummy == "dummy"
ProviderOpenAI == "openai"
UnknownKind == "mystery"
APIKeys == {"", "sk"}
\* Error chains handed to HandleError hold one or two errors (an error and
\* what it wraps).
ChainLengths == 1..2
ErrorMessages == {"model not found in config", "failed to get completion from any provider"}
\* The upstream of the HTTP-JSON adapter: the status codes it answers with and
\* the number of items (JSON values or stray text) in a response body.
StatusCodes == {200, 201, 404, 500}
MaxBodyItems == 2
APIUrls == {"http://upstream", "://upstream"}

Nil == <<>>

ModelIDs2Seq == <<"A", "B">>

SeqsUpTo(S, n) == UNION {[1..k -> S] : k \in 0..n}

Min(S) == CHOOSE x \in S : \A y \in S : x <= y

\* ------------------------------------------------------------------------
\* internal/errors
\* ------------------------------------------------------------------------
ErrNotFound == [Typed |-> TRUE, Message |-> "Resource not found", Status |-> 404]
ErrInternal == [Typed |-> TRUE, Message |-> "Internal server error", Status |-> 500]
WithMessage(e, message) == [e EXCEPT !.Message = message]

NotFoundError == WithMessage(ErrNotFound, "model not found in config")
ExhaustionError == WithMessage(ErrInternal, "failed to get completion from any provider")

\* Errors a provider adapter may return: an untyped error (errors.New,
\* fmt.Errorf) or a typed not-found error wrapped by the langchain adapter.
AdapterErrors ==
    { [Typed |-> FALSE, Message |-> "failed to generate content", Status |-> 0],
      WithMessage(ErrNotFound, "unknown chat message role") }

\* ------------------------------------------------------------------------
\* Configuration: config.ModelConfig entries and the provider registry
\* ------------------------------------------------------------------------
FallbackLists == SeqsUpTo(ModelIDs, MaxFallback)

\* The display name of an entry is the provider-side alias of its identifier
\* for the first catalog entry and the identifier itself for later ones, so
\* that names equal to and different from the identifier both occur and
\* entries sharing an identifier differ in their names.
ModelConfigAt(i, id, p, fb) ==
    [ID |-> id, Name |-> IF i = 1 THEN Alias[id] ELSE id, Provider |-> p, Fallback |-> fb]

\* The first entry has any fallback list within the bound, a later entry one
\* of a length in TailFallbackLengths.
Catalogs ==
    UNION { { [i \in 1..k |-> ModelConfigAt(i, ids[i], ps[i], fbs[i])] :
                ids \in [1..k -> ModelIDs], ps \in [1..k -> ProviderIDs],
                fbs \in {f \in [1..k -> FallbackLists] :
                            \A i \in 2..k : Len(f[i]) \in TailFallbackLengths} } :
            k \in CatalogLengths }

DisplayNames == ModelIDs \cup {Alias[id] : id \in ModelIDs}

Requests == [Model : RequestModels, Messages : MessageLists]

Usages ==
    {Nil} \cup
    { <<[PromptTokens |-> a, CompletionTokens |-> b, TotalTokens |-> c]>> :
        a \in PromptCounts, b \in CompletionCounts, c \in TotalCounts }

\* What an adapter may answer to the attempt request areq: the response
\* echoes the requested model (dummy adapter) or leaves it empty (langchain
\* adapter); usage is absent or carries three counts.
Responses(p, areq) ==
    { [Id |-> p, Model |-> m, Usage |-> u] : m \in {areq.Model, ""}, u \in Usages }

CounterKeys == (DisplayNames \cup {""}) \X ProviderIDs

\* ------------------------------------------------------------------------
\* Provider entries and the adapters built from them
\* ------------------------------------------------------------------------
\* configTypeFactories: the kinds config.Load has a factory for.
KnownKinds == {ProviderDummy, ProviderOpenAI}

\* config.ProviderConfig: identifier, kind and the credential of its
\* kind-specific configuration (the synthetic kind has none).
ProviderConfigs ==
    { c \in [ID : ConfigProviderIDs, Provider : KnownKinds \cup {UnknownKind},
             APIKey : APIKeys] :
        c.Provider = ProviderDummy => c.APIKey = "" }

ProviderConfigLists == UNION {[1..k -> ProviderConfigs] : k \in ProviderListLengths}

\* What the registry holds for a provider: the synthetic adapter, the
\* langchain adapter around a model or around nil, or (in a Proxy that a test
\* builds as a literal) a mock that answers as scripted.
DummyAdapter == "dummy"
LangchainAdapter == "langchain"
NilModelAdapter == "langchain(nil)"
MockAdapter == "mock"

\* Variant: the synthetic adapter reports 5 prompt tokens whatever the number
\* of messages.
DummyResponseFlat(p, areq) ==
    [Id |-> p, Model |-> areq.Model,
     Usage |-> <<[PromptTokens |-> 5, CompletionTokens |-> 10, TotalTokens |-> 15]>>]

\* DummyProvider.ChatCompletion: 5 prompt tokens a message, 10 completion
\* tokens, their sum as the total; the model of the request is echoed.
DummyResponse(p, areq) ==
    [Id |-> p, Model |-> areq.Model,
     Usage |-> <<[PromptTokens |-> Len(areq.Messages) * 5,
                  CompletionTokens |-> 10,
                  TotalTokens |-> Len(areq.Messages) * 5 + 10]>>]

\* openaiMsgToLangchainMsg fails on some message of the request: its role is
\* none of the known ones.
HasUnknownRole(areq) ==
    \E i \in 1..Len(areq.Messages) : areq.Messages[i] \notin KnownRoles

\* The responses an adapter of a kind may give: the synthetic adapter gives
\* its one response; the langchain adapter builds a response of the choices
\* alone, whose model is empty and whose usage is nil, and returns it when no
\* choice carries a count (a count it would store through the nil usage, see
\* LangchainUsagePanics), and returns none when the conversion of a message
\* fails; a mock gives whatever its test scripted.
ResponsesOf(adapter, p, areq) ==
    IF adapter = DummyAdapter THEN {DummyResponse(p, areq)}
    ELSE IF adapter = LangchainAdapter
    THEN {r \in Responses(p, areq) :
              r.Model = "" /\ r.Usage = Nil /\ ~HasUnknownRole(areq)}
    ELSE IF adapter = MockAdapter THEN Responses(p, areq)
    ELSE {}

\* Provider entries that config.Load and NewProxy both accept, each
\* identifier being configured once.
ValidProviderLists ==
    {ps \in ProviderConfigLists :
        /\ \A i \in 1..Len(ps) :
               /\ ps[i].ID # ""
               /\ ps[i].Provider \in KnownKinds
               /\ ps[i].Provider = ProviderOpenAI => ps[i].APIKey # ""
        /\ \A i, j \in 1..Len(ps) : ps[i].ID = ps[j].ID => i = j }

AdapterOfKind(kind) == IF kind = ProviderDummy THEN DummyAdapter ELSE LangchainAdapter

\* ------------------------------------------------------------------------
\* Errors at the HTTP boundary
\* ------------------------------------------------------------------------
\* An error value with what it wraps, outermost first.
ErrorLayers ==
    { [Typed |-> FALSE, Message |-> "failed to generate content", Status |-> 0] } \cup
    { WithMessage(e, m) : e \in {ErrNotFound, ErrInternal}, m \in ErrorMessages }

ErrorChains == UNION {[1..k -> ErrorLayers] : k \in ChainLengths}

\* ------------------------------------------------------------------------
\* Pure steps of Proxy.ChatCompletionsHandler
\* ------------------------------------------------------------------------
\* Variant: an unknown identifier falls back to the first configured model.
FindModelOrFirst(models, id) ==
    LET hits == {i \in 1..Len(models) : models[i].ID = id}
    IN  IF hits # {} THEN <<models[Min(hits)]>>
        ELSE IF models # <<>> THEN <<models[1]>> ELSE Nil

\* Variant: the loop has no break, the last entry of the identifier wins.
FindModelLast(models, id) ==
    LET hits == {i \in 1..Len(models) : models[i].ID = id}
    IN  IF hits = {} THEN Nil
        ELSE <<models[CHOOSE i \in hits : \A j \in hits : j <= i]>>

\* for _, m := range p.cfg.Models { if m.ID == id { ...; break } }
FindModel(models, id) ==
    LET hits == {i \in 1..Len(models) : models[i].ID = id}
    IN  IF hits = {} THEN Nil ELSE <<models[Min(hits)]>>

RECURSIVE Dedup(_)
Dedup(s) ==
    IF s = <<>> THEN <<>>
    ELSE LET front == Dedup(SubSeq(s, 1, Len(s) - 1))
         IN  IF \E i \in 1..Len(front) : front[i] = s[Len(s)]
             THEN front ELSE Append(front, s[Len(s)])

\* Variant: a model already in the candidate list is not listed again.
ModelsToTryDedup(reqModel, modelConfig) == Dedup(<<reqModel>> \o modelConfig.Fallback)

\* Variant: the fallbacks are tried before the requested model.
ModelsToTryFallbackFirst(reqModel, modelConfig) == modelConfig.Fallback \o <<reqModel>>

\* modelsToTry := []string{req.Model}; append(modelsToTry, modelConfig.Fallback...)
ModelsToTry(reqModel, modelConfig) == <<reqModel>> \o modelConfig.Fallback

\* Variant: the model field carries the catalog identifier of the candidate.
AttemptReqByID(r, currentModelConfig) == [r EXCEPT !.Model = currentModelConfig.ID]

\* attemptReq := req; attemptReq.Model = currentModelConfig.Name
AttemptReq(r, currentModelConfig) == [r EXCEPT !.Model = currentModelConfig.Name]

\* Variant: the counter is set to the count instead of growing by it.
AddTokensSet(counter, key, n) ==
    IF n > 0 THEN [counter EXCEPT ![key] = n] ELSE counter

\* Variant: the count is added whatever its sign.
AddTokensAny(counter, key, n) == [counter EXCEPT ![key] = @ + n]

\* Variant: Inc() instead of Add(n).
AddTokensInc(counter, key, n) ==
    IF n > 0 THEN [counter EXCEPT ![key] = @ + 1] ELSE counter

\* if n > 0 { counter.WithLabelValues(...).Add(float64(n)) }
AddTokens(counter, key, n) ==
    IF n > 0 THEN [counter EXCEPT ![key] = @ + n] ELSE counter

\* return resp, nil
Success(response) == [resp |-> <<response>>, err |-> Nil]
Failure(e) == [resp |-> Nil, err |-> <<e>>]
NoResult == [resp |-> Nil, err |-> Nil]

\* ------------------------------------------------------------------------
\* Pure steps of config.Load, NewProxy and HandleError
\* ------------------------------------------------------------------------
\* Variant: a kind without a factory is accepted.
LoadErrIDOnly(ps) ==
    IF \E i \in 1..Len(ps) : ps[i].ID = ""
    THEN <<"provider id is required in config">> ELSE Nil

\* for _, providerCfg := range cfg.Providers: an empty identifier or a kind
\* without a factory ends Load with an error.
LoadErr(ps) ==
    LET bad == {i \in 1..Len(ps) : ps[i].ID = "" \/ ps[i].Provider \notin KnownKinds}
    IN  IF bad = {} THEN Nil
        ELSE IF ps[Min(bad)].ID = "" THEN <<"provider id is required in config">>
        ELSE <<"no config type factory found for provider">>

\* The switch on pCfg.Provider: the library constructor of the kind returns a
\* model or an error (no token given); no case matches an unknown kind, which
\* leaves llm nil and err nil.
NewModel(pCfg) ==
    IF pCfg.Provider = ProviderOpenAI
    THEN IF pCfg.APIKey = ""
         THEN [llm |-> Nil, err |-> <<"missing the API key">>]
         ELSE [llm |-> <<"llm">>, err |-> Nil]
    ELSE [llm |-> Nil, err |-> Nil]

\* errs.As(err, &typedError): the first errors.Error of the chain.
AsTyped(chain) ==
    LET hits == {i \in 1..Len(chain) : chain[i].Typed}
    IN  IF hits = {} THEN Nil ELSE <<chain[Min(hits)]>>

\* Variant: every error is answered as an internal error.
HandleErrorInternal(chain) ==
    [Status |-> ErrInternal.Status,
     Body |-> [message |-> ErrInternal.Message, code |-> ErrInternal.Status,
               details |-> chain]]

\* c.JSON(typedError.Status, typedError), typedError being the error itself
\* when it is typed and ErrInternal.WithDetails(err) otherwise.
HandleError(chain) ==
    LET typedError == IF AsTyped(chain) # Nil THEN AsTyped(chain)[1] ELSE ErrInternal
    IN  [Status |-> typedError.Status,
         Body |-> [message |-> typedError.Message, code |-> typedError.Status,
                   details |-> IF AsTyped(chain) # Nil THEN Nil ELSE chain]]

\* ------------------------------------------------------------------------
\* The HTTP-JSON adapter: OpenAICompatibleProvider and client.DoRequest
\* ------------------------------------------------------------------------
\* An OpenAICompatibleProvider as NewOpenAICompatibleProvider builds it.
OpProviders == [providerName : {"p1"}, APIKey : APIKeys, APIUrl : APIUrls]

\* types.ChatCompletionRequest as the dispatcher hands it to an adapter.
OpRequests == [Model : DisplayNames, Messages : {<<"user">>}]

\* A response body is a sequence of items: JSON objects with some of the
\* members of a chat completion, the JSON values null and "text", and text
\* that is no JSON.
JSONFields == {"id", "model", "usage"}
JSONObjects == {[type |-> "object", fields |-> D] : D \in SUBSET JSONFields}
JSONNull == [type |-> "null", fields |-> {}]
JSONString == [type |-> "string", fields |-> {}]
NoJSON == [type |-> "text", fields |-> {}]
BodyItems == JSONObjects \cup {JSONNull, JSONString, NoJSON}
WireBodies == SeqsUpTo(BodyItems, MaxBodyItems)

\* What client.Do returns: an error, or a response with status and body.
HTTPReplies ==
    { [err |-> <<"connection refused">>, StatusCode |-> 0, Body |-> <<>>] } \cup
    [err : {Nil}, StatusCode : StatusCodes, Body : WireBodies]

\* var apiResp types.ChatCompletionResponse
ZeroAPIResponse ==
    [ID |-> "", Model |-> "",
     Usage |-> [PromptTokens |-> 0, CompletionTokens |-> 0, TotalTokens |-> 0]]

\* The members of a JSON object stored into the response value; a member the
\* object lacks leaves its field as it was.
FromObject(fields) ==
    [ID |-> IF "id" \in fields THEN "cmpl-1" ELSE "",
     Model |-> IF "model" \in fields THEN "a" ELSE "",
     Usage |-> IF "usage" \in fields
               THEN [PromptTokens |-> 10, CompletionTokens |-> 20, TotalTokens |-> 30]
               ELSE ZeroAPIResponse.Usage]

\* json.NewDecoder(body).Decode(&apiResp): reads the first JSON value of the
\* body and nothing after it; null stores nothing; a value of another type
\* than an object, text that is no JSON and an empty body are errors.
Decode(body) ==
    IF body = <<>> THEN [err |-> <<"EOF">>, value |-> ZeroAPIResponse]
    ELSE IF body[1].type = "object"
    THEN [err |-> Nil, value |-> FromObject(body[1].fields)]
    ELSE IF body[1].type = "null" THEN [err |-> Nil, value |-> ZeroAPIResponse]
    ELSE IF body[1].type = "string"
    THEN [err |-> <<"json: cannot unmarshal string">>, value |-> ZeroAPIResponse]
    ELSE [err |-> <<"invalid character">>, value |-> ZeroAPIResponse]

\* The errors of DoRequest: a message, the status code and the body when the
\* message is formatted with them, and the error it wraps.
WireError(message, status, body, wraps) ==
    [Message |-> message, StatusCode |-> status, Body |-> body, Wraps |-> wraps]

\* http.NewRequestWithContext(ctx, method, url, body): fails on a URL that
\* does not parse.
NewRequestErr(url) ==
    IF url[1] = "://upstream"
    THEN <<WireError("failed to create http request", Nil, Nil, <<"missing protocol scheme">>)>>
    ELSE Nil

\* url, headers and body of the request that ChatCompletion has DoRequest send.
HTTPRequest(o, r) ==
    [method |-> "POST",
     url |-> <<o.APIUrl, "/v1/chat/completions">>,
     ContentType |-> "application/json",
     Authorization |-> IF o.APIKey # "" THEN <<"Bearer", o.APIKey>> ELSE Nil,
     body |-> r]

\* DoRequest from the return of client.Do on: the error of client.Do wrapped;
\* for a status other than 200 an error formatted with the status code and
\* the body; for a body that does not decode the decoder's error wrapped;
\* nil otherwise, the decoded value being stored in responseBody.
DoRequestOutcome(reply) ==
    IF reply.err # Nil
    THEN [err |-> <<WireError("failed to send http request", Nil, Nil, reply.err)>>,
          value |-> ZeroAPIResponse]
    ELSE IF reply.StatusCode # 200
    THEN [err |-> <<WireError("API returned non-200 status", <<reply.StatusCode>>,
                              <<reply.Body>>, Nil)>>,
          value |-> ZeroAPIResponse]
    ELSE IF Decode(reply.Body).err # Nil
    THEN [err |-> <<WireError("failed to decode response body", Nil, Nil,
                              Decode(reply.Body).err)>>,
          value |-> ZeroAPIResponse]
    ELSE [err |-> Nil, value |-> Decode(reply.Body).value]

\* fmt.Errorf("%s chat completion failed: %w", op.providerName, err)
OpError(o, e) == [Provider |-> o.providerName, Message |-> "chat completion failed", Cause |-> e]

\* ------------------------------------------------------------------------
\* State
\* ------------------------------------------------------------------------
VARIABLES
    cfgProviders,           \* cfg.Providers
    source,                 \* "file": the Config comes from config.Load;
                            \* "literal": the caller built it
    boot,                   \* "start", "config" (a Config exists, NewProxy
                            \* runs), "ready" (a Proxy exists), "failed"
    npIdx,                  \* NewProxy's position in cfg.Providers
    adapters,               \* values of p.providers
    ctxDone,                \* the caller's context of each task is cancelled
    httpResp,               \* what CreateChatCompletion wrote
    handled,                \* HandleError applied to an error chain
    op,                     \* the OpenAICompatibleProvider of the adapter call
    opPc,                   \* position of the adapter call in ChatCompletion
    opReq,                  \* the request the adapter was called with
    outbound,               \* history: HTTP requests handed to client.Do
    httpReply,              \* what client.Do returned
    opResult,               \* what the adapter's ChatCompletion returned
    cfgModels,              \* p.cfg.Models
    providers,              \* keys of p.providers
    pending,                \* tasks that have yet to call the handler
    pc,                     \* position of each task in the handler
    req,                    \* the handler's req parameter
    modelsToTry, idx,       \* the candidate list and the loop position
    providerName, attemptReq, resp, err,
    result,                 \* what the handler returned
    promptTokensTotal, completionTokensTotal, totalTokensTotal,
    origReq,                \* history: the request as the caller passed it
    invoked,                \* history: adapter invocations of each task
    returned                \* history: what each invocation returned

\* Variant: the counters are labelled with the model the caller asked for.
CounterKeyRequested(t) == <<req[t].Model, providerName[t]>>

\* WithLabelValues(resp.Model, providerName)
CounterKey(t) == <<resp[t][1].Model, providerName[t]>>

\* llmProvider, ok := p.providers[providerName]
AdapterOf(t) ==
    IF providerName[t] \in providers THEN adapters[providerName[t]] ELSE "none"

config == <<cfgModels, providers>>
startup == <<cfgProviders, source, boot, npIdx, adapters>>
boundary == <<ctxDone, httpResp, handled>>
wire == <<op, opPc, opReq, outbound, httpReply, opResult>>
locals == <<req, modelsToTry, idx, providerName, attemptReq, resp, err>>
counters == <<promptTokensTotal, completionTokensTotal, totalTokensTotal>>
history == <<origReq, invoked, returned>>
vars == <<config, startup, boundary, wire, pending, pc, locals, result, counters, history>>

InitDispatch ==
    /\ pc = [t \in Tasks |-> "idle"]
    /\ req = [t \in Tasks |-> [Model |-> "", Messages |-> <<>>]]
    /\ modelsToTry = [t \in Tasks |-> <<>>]
    /\ idx = [t \in Tasks |-> 0]
    /\ providerName = [t \in Tasks |-> ""]
    /\ attemptReq = [t \in Tasks |-> [Model |-> "", Messages |-> <<>>]]
    /\ resp = [t \in Tasks |-> Nil]
    /\ err = [t \in Tasks |-> Nil]
    /\ result = [t \in Tasks |-> NoResult]
    /\ promptTokensTotal = [k \in CounterKeys |-> 0]
    /\ completionTokensTotal = [k \in CounterKeys |-> 0]
    /\ totalTokensTotal = [k \in CounterKeys |-> 0]
    /\ origReq = [t \in Tasks |-> [Model |-> "", Messages |-> <<>>]]
    /\ invoked = [t \in Tasks |-> <<>>]
    /\ returned = [t \in Tasks |-> <<>>]
    /\ ctxDone = [t \in Tasks |-> FALSE]
    /\ httpResp = [t \in Tasks |-> Nil]
    /\ handled = Nil

\* No adapter call is looked into: the adapters answer as a whole.
WireOff ==
    /\ op = Nil
    /\ opPc = "off"
    /\ opReq = Nil
    /\ outbound = <<>>
    /\ httpReply = Nil
    /\ opResult = NoResult

InitState == InitDispatch /\ WireOff

\* A Proxy built as a literal around mocks registered as `providers`, as the
\* tests of the handler build it: NewProxy never ran.
ProxyLiteral ==
    /\ cfgProviders = <<>>
    /\ adapters = [p \in providers |-> MockAdapter]
    /\ source = "literal"
    /\ boot = "ready"
    /\ npIdx = 1

\* The Proxy that config.Load and NewProxy leave for the provider entries
\* cfgProviders.
ProxyBuilt ==
    /\ providers = {cfgProviders[i].ID : i \in 1..Len(cfgProviders)}
    /\ adapters = [p \in providers |->
           AdapterOfKind((CHOOSE c \in {cfgProviders[i] : i \in 1..Len(cfgProviders)} :
                              c.ID = p).Provider)]
    /\ source = "file"
    /\ boot = "ready"
    /\ npIdx = Len(cfgProviders) + 1

\* One dispatch against every catalog and registry within the bounds.
Init ==
    /\ cfgModels \in Catalogs
    /\ providers \in SUBSET ProviderIDs
    /\ ProxyLiteral
    /\ pending = {1}
    /\ InitState

\* ------------------------------------------------------------------------
\* Proxy.ChatCompletionsHandler, one action per step
\* ------------------------------------------------------------------------
\* Entry: look the requested model up; not found returns at once, otherwise
\* the candidate list is built and the loop is entered.
Call(t, r) ==
    /\ pc[t] = "idle"
    /\ UNCHANGED <<startup, boundary, wire>>
    /\ boot = "ready"
    /\ t \in pending
    /\ pending' = pending \ {t}
    /\ req' = [req EXCEPT ![t] = r]
    /\ origReq' = [origReq EXCEPT ![t] = r]
    /\ LET modelConfig == FindModel(cfgModels, r.Model)
       IN  IF modelConfig = Nil
           THEN /\ result' = [result EXCEPT ![t] = Failure(NotFoundError)]
                /\ pc' = [pc EXCEPT ![t] = "done"]
                /\ UNCHANGED <<modelsToTry, idx>>
           ELSE /\ modelsToTry' = [modelsToTry EXCEPT ![t] = ModelsToTry(r.Model, modelConfig[1])]
                /\ idx' = [idx EXCEPT ![t] = 1]
                /\ pc' = [pc EXCEPT ![t] = "loop"]
                /\ UNCHANGED result
    /\ UNCHANGED <<config, providerName, attemptReq, resp, err, counters, invoked, returned>>

\* Variant: the exhaustion error carries the message of the last adapter
\* error.
ExhaustedWithCause(t) ==
    /\ pc[t] = "loop"
    /\ UNCHANGED <<startup, boundary, wire>>
    /\ idx[t] > Len(modelsToTry[t])
    /\ result' = [result EXCEPT ![t] =
           IF err[t] = Nil THEN Failure(ExhaustionError)
           ELSE Failure(WithMessage(ErrInternal, err[t][1].Message))]
    /\ pc' = [pc EXCEPT ![t] = "done"]
    /\ UNCHANGED <<config, pending, locals, counters, history>>

\* The loop is over: return the exhaustion error.
Exhausted(t) ==
    /\ pc[t] = "loop"
    /\ UNCHANGED <<startup, boundary, wire>>
    /\ idx[t] > Len(modelsToTry[t])
    /\ result' = [result EXCEPT ![t] = Failure(ExhaustionError)]
    /\ pc' = [pc EXCEPT ![t] = "done"]
    /\ UNCHANGED <<config, pending, locals, counters, history>>

\* Variant: a candidate missing from the catalog ends the dispatch with the
\* not-found error.
SkipModelAbort(t) ==
    /\ pc[t] = "loop"
    /\ UNCHANGED <<startup, boundary, wire>>
    /\ idx[t] <= Len(modelsToTry[t])
    /\ FindModel(cfgModels, modelsToTry[t][idx[t]]) = Nil
    /\ result' = [result EXCEPT ![t] = Failure(NotFoundError)]
    /\ pc' = [pc EXCEPT ![t] = "done"]
    /\ UNCHANGED <<config, pending, locals, counters, history>>

\* Variant: a candidate missing from the catalog is struck from the fallback
\* lists of the catalog.
SkipModelPrune(t) ==
    /\ pc[t] = "loop"
    /\ UNCHANGED <<startup, boundary, wire>>
    /\ idx[t] <= Len(modelsToTry[t])
    /\ FindModel(cfgModels, modelsToTry[t][idx[t]]) = Nil
    /\ cfgModels' = [i \in 1..Len(cfgModels) |->
           [cfgModels[i] EXCEPT !.Fallback =
               SelectSeq(@, LAMBDA m : m # modelsToTry[t][idx[t]])]]
    /\ idx' = [idx EXCEPT ![t] = @ + 1]
    /\ UNCHANGED <<providers, pending, pc, req, modelsToTry, providerName, attemptReq,
                   resp, err, result, counters, history>>

\* currentModelConfig == nil: continue
SkipModel(t) ==
    /\ pc[t] = "loop"
    /\ UNCHANGED <<startup, boundary, wire>>
    /\ idx[t] <= Len(modelsToTry[t])
    /\ FindModel(cfgModels, modelsToTry[t][idx[t]]) = Nil
    /\ idx' = [idx EXCEPT ![t] = @ + 1]
    /\ UNCHANGED <<config, pending, pc, req, modelsToTry, providerName, attemptReq,
                   resp, err, result, counters, history>>

\* the provider of the candidate is not in p.providers: continue
SkipProvider(t) ==
    /\ pc[t] = "loop"
    /\ UNCHANGED <<startup, boundary, wire>>
    /\ idx[t] <= Len(modelsToTry[t])
    /\ LET cur == FindModel(cfgModels, modelsToTry[t][idx[t]])
       IN  /\ cur # Nil
           /\ cur[1].Provider \notin providers
           /\ providerName' = [providerName EXCEPT ![t] = cur[1].Provider]
    /\ idx' = [idx EXCEPT ![t] = @ + 1]
    /\ UNCHANGED <<config, pending, pc, req, modelsToTry, attemptReq,
                   resp, err, result, counters, history>>

\* Variant: the model field is rewritten in the request itself.
InvokeInPlace(t) ==
    /\ pc[t] = "loop"
    /\ UNCHANGED <<startup, boundary, wire>>
    /\ idx[t] <= Len(modelsToTry[t])
    /\ LET cur == FindModel(cfgModels, modelsToTry[t][idx[t]])
       IN  /\ cur # Nil
           /\ cur[1].Provider \in providers
           /\ providerName' = [providerName EXCEPT ![t] = cur[1].Provider]
           /\ req' = [req EXCEPT ![t] = AttemptReq(req[t], cur[1])]
           /\ attemptReq' = [attemptReq EXCEPT ![t] = AttemptReq(req[t], cur[1])]
           /\ invoked' = [invoked EXCEPT ![t] =
                 Append(@, [candidate |-> idx[t], modelID |-> modelsToTry[t][idx[t]],
                            provider |-> cur[1].Provider,
                            ctx |-> t, cancelled |-> ctxDone[t],
                            req |-> AttemptReq(req[t], cur[1])])]
    /\ pc' = [pc EXCEPT ![t] = "call"]
    /\ UNCHANGED <<config, pending, modelsToTry, idx, resp, err, result, counters,
                   origReq, returned>>

\* Variant: the adapter is called without waiting for its answer, and the
\* loop goes on to the next candidate.
InvokeAhead(t) ==
    /\ pc[t] = "loop"
    /\ UNCHANGED <<startup, boundary, wire>>
    /\ idx[t] <= Len(modelsToTry[t])
    /\ LET cur == FindModel(cfgModels, modelsToTry[t][idx[t]])
       IN  /\ cur # Nil
           /\ cur[1].Provider \in providers
           /\ providerName' = [providerName EXCEPT ![t] = cur[1].Provider]
           /\ attemptReq' = [attemptReq EXCEPT ![t] = AttemptReq(req[t], cur[1])]
           /\ invoked' = [invoked EXCEPT ![t] =
                 Append(@, [candidate |-> idx[t], modelID |-> modelsToTry[t][idx[t]],
                            provider |-> cur[1].Provider,
                            ctx |-> t, cancelled |-> ctxDone[t],
                            req |-> AttemptReq(req[t], cur[1])])]
    /\ idx' = [idx EXCEPT ![t] = @ + 1]
    /\ UNCHANGED <<config, pending, pc, req, modelsToTry, resp, err, result, counters,
                   origReq, returned>>

\* Build the attempt request and call llmProvider.ChatCompletion.
Invoke(t) ==
    /\ pc[t] = "loop"
    /\ UNCHANGED <<startup, boundary, wire>>
    /\ idx[t] <= Len(modelsToTry[t])
    /\ LET cur == FindModel(cfgModels, modelsToTry[t][idx[t]])
       IN  /\ cur # Nil
           /\ cur[1].Provider \in providers
           /\ providerName' = [providerName EXCEPT ![t] = cur[1].Provider]
           /\ attemptReq' = [attemptReq EXCEPT ![t] = AttemptReq(req[t], cur[1])]
           /\ invoked' = [invoked EXCEPT ![t] =
                 Append(@, [candidate |-> idx[t], modelID |-> modelsToTry[t][idx[t]],
                            provider |-> cur[1].Provider,
                            ctx |-> t, cancelled |-> ctxDone[t],
                            req |-> AttemptReq(req[t], cur[1])])]
    /\ pc' = [pc EXCEPT ![t] = "call"]
    /\ UNCHANGED <<config, pending, req, modelsToTry, idx, resp, err, result, counters,
                   origReq, returned>>

\* Variant: a failed attempt is counted as one token of its model.
AdapterFailsCounted(t, e) ==
    /\ pc[t] = "call"
    /\ UNCHANGED <<startup, boundary, wire>>
    /\ AdapterOf(t) # DummyAdapter
    /\ AdapterOf(t) = LangchainAdapter => (e.Typed <=> HasUnknownRole(attemptReq[t]))
    /\ AdapterOf(t) = NilModelAdapter => (e.Typed /\ HasUnknownRole(attemptReq[t]))
    /\ resp' = [resp EXCEPT ![t] = Nil]
    /\ err' = [err EXCEPT ![t] = <<e>>]
    /\ returned' = [returned EXCEPT ![t] = Append(@, Nil)]
    /\ idx' = [idx EXCEPT ![t] = @ + 1]
    /\ pc' = [pc EXCEPT ![t] = "loop"]
    /\ totalTokensTotal' =
           AddTokens(totalTokensTotal, <<attemptReq[t].Model, providerName[t]>>, 1)
    /\ UNCHANGED <<config, pending, req, modelsToTry, providerName, attemptReq,
                   result, promptTokensTotal, completionTokensTotal, origReq, invoked>>

\* Variant: a provider whose adapter failed is taken out of the registry.
AdapterFailsTrips(t, e) ==
    /\ pc[t] = "call"
    /\ UNCHANGED <<cfgProviders, source, boot, npIdx, boundary, wire>>
    /\ AdapterOf(t) # DummyAdapter
    /\ AdapterOf(t) = LangchainAdapter => (e.Typed <=> HasUnknownRole(attemptReq[t]))
    /\ AdapterOf(t) = NilModelAdapter => (e.Typed /\ HasUnknownRole(attemptReq[t]))
    /\ providers' = providers \ {providerName[t]}
    /\ adapters' = [p \in providers \ {providerName[t]} |-> adapters[p]]
    /\ resp' = [resp EXCEPT ![t] = Nil]
    /\ err' = [err EXCEPT ![t] = <<e>>]
    /\ returned' = [returned EXCEPT ![t] = Append(@, Nil)]
    /\ idx' = [idx EXCEPT ![t] = @ + 1]
    /\ pc' = [pc EXCEPT ![t] = "loop"]
    /\ UNCHANGED <<cfgModels, pending, req, modelsToTry, providerName, attemptReq,
                   result, counters, origReq, invoked>>

\* Variant: a typed adapter error ends the dispatch and is its result.
AdapterFailsTyped(t, e) ==
    /\ pc[t] = "call"
    /\ UNCHANGED <<startup, boundary, wire>>
    /\ AdapterOf(t) # DummyAdapter
    /\ AdapterOf(t) = LangchainAdapter => (e.Typed <=> HasUnknownRole(attemptReq[t]))
    /\ AdapterOf(t) = NilModelAdapter => (e.Typed /\ HasUnknownRole(attemptReq[t]))
    /\ resp' = [resp EXCEPT ![t] = Nil]
    /\ err' = [err EXCEPT ![t] = <<e>>]
    /\ returned' = [returned EXCEPT ![t] = Append(@, Nil)]
    /\ IF e.Typed
       THEN /\ result' = [result EXCEPT ![t] = Failure(e)]
            /\ pc' = [pc EXCEPT ![t] = "done"]
            /\ UNCHANGED idx
       ELSE /\ idx' = [idx EXCEPT ![t] = @ + 1]
            /\ pc' = [pc EXCEPT ![t] = "loop"]
            /\ UNCHANGED result
    /\ UNCHANGED <<config, pending, req, modelsToTry, providerName, attemptReq,
                   counters, origReq, invoked>>

\* The adapter returns an error: log and continue with the next candidate.
\* The synthetic adapter never fails; the langchain adapter returns the typed
\* not-found error of openaiMsgToLangchainMsg, wrapped, when a message has an
\* unknown role, before it reaches the model, and the untyped wrapped error
\* of GenerateContent otherwise; an adapter around a nil model can only fail
\* before it reaches the model.
AdapterFails(t, e) ==
    /\ pc[t] = "call"
    /\ UNCHANGED <<startup, boundary, wire>>
    /\ AdapterOf(t) # DummyAdapter
    /\ AdapterOf(t) = LangchainAdapter => (e.Typed <=> HasUnknownRole(attemptReq[t]))
    /\ AdapterOf(t) = NilModelAdapter => (e.Typed /\ HasUnknownRole(attemptReq[t]))
    /\ resp' = [resp EXCEPT ![t] = Nil]
    /\ err' = [err EXCEPT ![t] = <<e>>]
    /\ returned' = [returned EXCEPT ![t] = Append(@, Nil)]
    /\ idx' = [idx EXCEPT ![t] = @ + 1]
    /\ pc' = [pc EXCEPT ![t] = "loop"]
    /\ UNCHANGED <<config, pending, req, modelsToTry, providerName, attemptReq,
                   result, counters, origReq, invoked>>

\* The adapter returns a response and no error.  An adapter that hands the
\* context to its upstream call (client.DoRequest, GenerateContent) returns
\* no response once the context is cancelled; the synthetic adapter never
\* looks at the context: it sleeps and answers.
AdapterSucceeds(t, response) ==
    /\ pc[t] = "call"
    /\ UNCHANGED <<startup, boundary, wire>>
    /\ ctxDone[t] => AdapterOf(t) # LangchainAdapter
    /\ resp' = [resp EXCEPT ![t] = <<response>>]
    /\ err' = [err EXCEPT ![t] = Nil]
    /\ returned' = [returned EXCEPT ![t] = Append(@, <<response>>)]
    /\ pc' = [pc EXCEPT ![t] = "prompt"]
    /\ UNCHANGED <<config, pending, req, modelsToTry, idx, providerName, attemptReq,
                   result, counters, origReq, invoked>>

\* if resp.Usage.PromptTokens > 0 { promptTokensTotal...Add }
\* resp.Usage is a pointer: reading a field of a nil Usage panics.
IncPrompt(t) ==
    /\ pc[t] = "prompt"
    /\ UNCHANGED <<startup, boundary, wire>>
    /\ IF resp[t][1].Usage = Nil
       THEN /\ pc' = [pc EXCEPT ![t] = "panic"]
            /\ UNCHANGED promptTokensTotal
       ELSE /\ promptTokensTotal' =
                  AddTokens(promptTokensTotal, CounterKey(t),
                            resp[t][1].Usage[1].PromptTokens)
            /\ pc' = [pc EXCEPT ![t] = "completion"]
    /\ UNCHANGED <<config, pending, locals, result, completionTokensTotal,
                   totalTokensTotal, history>>

\* if resp.Usage.CompletionTokens > 0 { completionTokensTotal...Add }
IncCompletion(t) ==
    /\ pc[t] = "completion"
    /\ UNCHANGED <<startup, boundary, wire>>
    /\ completionTokensTotal' =
           AddTokens(completionTokensTotal, CounterKey(t),
                     resp[t][1].Usage[1].CompletionTokens)
    /\ pc' = [pc EXCEPT ![t] = "total"]
    /\ UNCHANGED <<config, pending, locals, result, promptTokensTotal,
                   totalTokensTotal, history>>

\* if resp.Usage.TotalTokens > 0 { totalTokensTotal...Add }; return resp, nil
IncTotal(t) ==
    /\ pc[t] = "total"
    /\ UNCHANGED <<startup, boundary, wire>>
    /\ totalTokensTotal' =
           AddTokens(totalTokensTotal, CounterKey(t),
                     resp[t][1].Usage[1].TotalTokens)
    /\ result' = [result EXCEPT ![t] = Success(resp[t][1])]
    /\ pc' = [pc EXCEPT ![t] = "done"]
    /\ UNCHANGED <<config, pending, locals, promptTokensTotal,
                   completionTokensTotal, history>>

Next ==
    \E t \in Tasks :
        \/ \E r \in Requests : Call(t, r)
        \/ Exhausted(t)
        \/ SkipModel(t)
        \/ SkipProvider(t)
        \/ Invoke(t)
        \/ \E e \in AdapterErrors : AdapterFails(t, e)
        \/ \E response \in ResponsesOf(AdapterOf(t), providerName[t],
                                        attemptReq[t]) :
               AdapterSucceeds(t, response)
        \/ IncPrompt(t)
        \/ IncCompletion(t)
        \/ IncTotal(t)

Spec == Init /\ [][Next]_vars

dispatch == <<pending, pc, locals, result, counters, history>>

\* ------------------------------------------------------------------------
\* The caller's context
\* ------------------------------------------------------------------------
\* The caller cancels the context of a running dispatch (or its deadline
\* passes).  The handler never reads ctx; it only hands it to the adapter.
Cancel(t) ==
    /\ pc[t] \in {"loop", "call", "prompt", "completion", "total"}
    /\ ~ctxDone[t]
    /\ ctxDone' = [ctxDone EXCEPT ![t] = TRUE]
    /\ UNCHANGED <<config, startup, httpResp, handled, wire, dispatch>>

\* res.Usage.CompletionTokens = complTokens in the langchain adapter, for a
\* choice whose generation info carries a count: res.Usage is nil, the store
\* faults inside the adapter call and the fault unwinds the handler.
LangchainUsagePanics(t) ==
    /\ pc[t] = "call"
    /\ AdapterOf(t) = LangchainAdapter
    /\ ~HasUnknownRole(attemptReq[t])
    /\ ~ctxDone[t]
    /\ pc' = [pc EXCEPT ![t] = "panic"]
    /\ UNCHANGED <<config, startup, boundary, wire, pending, locals, result, counters,
                   history>>

\* Catalogs of model A alone or of the models A and B, in this order.
CancelCatalogs ==
    {c \in Catalogs :
        /\ Len(c) >= 1
        /\ \A i \in 1..Len(c) : c[i].ID = ModelIDs2Seq[i] /\ Len(c[i].Fallback) <= 1}

InitCancel ==
    /\ cfgModels \in CancelCatalogs
    /\ cfgProviders \in ValidProviderLists
    /\ ProxyBuilt
    /\ pending = {1}
    /\ InitState

NextCancel ==
    \/ Next
    \/ \E t \in Tasks : Cancel(t)
    \/ \E t \in Tasks : LangchainUsagePanics(t)

SpecCancel == InitCancel /\ [][NextCancel]_vars

\* ------------------------------------------------------------------------
\* A dispatch that runs on: the handler takes its next step and every
\* adapter call returns
\* ------------------------------------------------------------------------
\* Catalogs of model A alone or of the models A and B, in this order, with
\* fallback lists that may name the model itself, the other model (cyclic
\* references) or a model the catalog lacks.
LiveCatalogs ==
    {c \in Catalogs : Len(c) >= 1 /\ \A i \in 1..Len(c) : c[i].ID = ModelIDs2Seq[i]}

InitLive ==
    /\ cfgModels \in LiveCatalogs
    /\ providers \in SUBSET ProviderIDs
    /\ ProxyLiteral
    /\ pending = {1}
    /\ InitState

SpecLive == InitLive /\ [][Next]_vars /\ WF_vars(Next)

\* ------------------------------------------------------------------------
\* Concurrent dispatches
\* ------------------------------------------------------------------------
\* Both tasks dispatch model A, whose catalog entry has at most one fallback
\* (A itself, or B, which the catalog lacks), against the registry {p1}.
ConcurrentCatalogs ==
    {c \in Catalogs : Len(c) = 1 /\ c[1].ID = "A" /\ Len(c[1].Fallback) <= 1}

InitConcurrent ==
    /\ cfgModels \in ConcurrentCatalogs
    /\ providers = {"p1"}
    /\ ProxyLiteral
    /\ pending = Tasks
    /\ InitState

SpecConcurrent == InitConcurrent /\ [][Next]_vars

\* ------------------------------------------------------------------------
\* Startup: config.Load, then NewProxy
\* ------------------------------------------------------------------------
\* main: cfg, err := config.Load()
LoadConfig ==
    /\ boot = "start"
    /\ boot' = IF LoadErr(cfgProviders) = Nil THEN "config" ELSE "failed"
    /\ UNCHANGED <<config, cfgProviders, source, npIdx, adapters, boundary, wire, dispatch>>

\* providers[id] = adapter
Register(id, adapter) ==
    /\ providers' = providers \cup {id}
    /\ adapters' = [p \in providers \cup {id} |-> IF p = id THEN adapter ELSE adapters[p]]

\* Variant: a provider whose adapter cannot be built is left out.
NewProxyStepLenient ==
    /\ boot = "config"
    /\ npIdx <= Len(cfgProviders)
    /\ LET pCfg == cfgProviders[npIdx]
           made == NewModel(pCfg)
       IN  IF pCfg.Provider = ProviderDummy
           THEN Register(pCfg.ID, DummyAdapter)
           ELSE IF made.err # Nil
           THEN UNCHANGED <<providers, adapters>>
           ELSE Register(pCfg.ID, IF made.llm = Nil THEN NilModelAdapter
                                  ELSE LangchainAdapter)
    /\ npIdx' = npIdx + 1
    /\ UNCHANGED <<cfgModels, cfgProviders, source, boot, boundary, wire, dispatch>>

\* One iteration of for _, pCfg := range cfg.Providers in NewProxy.
NewProxyStep ==
    /\ boot = "config"
    /\ npIdx <= Len(cfgProviders)
    /\ LET pCfg == cfgProviders[npIdx]
           made == NewModel(pCfg)
       IN  IF pCfg.Provider = ProviderDummy
           THEN /\ Register(pCfg.ID, DummyAdapter)
                /\ npIdx' = npIdx + 1
                /\ UNCHANGED boot
           ELSE IF made.err # Nil
           THEN /\ boot' = "failed"
                /\ UNCHANGED <<providers, adapters, npIdx>>
           ELSE /\ Register(pCfg.ID, IF made.llm = Nil THEN NilModelAdapter
                                       ELSE LangchainAdapter)
                /\ npIdx' = npIdx + 1
                /\ UNCHANGED boot
    /\ UNCHANGED <<cfgModels, cfgProviders, source, boundary, wire, dispatch>>

\* return &Proxy{cfg: cfg, providers: providers}, nil
NewProxyReturn ==
    /\ boot = "config"
    /\ npIdx > Len(cfgProviders)
    /\ boot' = "ready"
    /\ UNCHANGED <<config, cfgProviders, source, npIdx, adapters, boundary, wire, dispatch>>

\* p.model.GenerateContent on the nil model of an adapter built for an
\* unknown kind: a nil dereference.
NilModelPanics(t) ==
    /\ pc[t] = "call"
    /\ AdapterOf(t) = NilModelAdapter
    /\ ~HasUnknownRole(attemptReq[t])
    /\ pc' = [pc EXCEPT ![t] = "panic"]
    /\ UNCHANGED <<config, startup, boundary, wire, pending, locals, result, counters,
                   history>>

\* One model, served by p1 or by p2, without fallback or with the fallback
\* B, which the catalog lacks; InitStartup adds the empty catalog.
StartupCatalogs ==
    {c \in Catalogs : Len(c) = 1 /\ c[1].ID = "A" /\ c[1].Fallback \in {<<>>, <<"B">>}}

InitStartup ==
    /\ cfgModels \in StartupCatalogs \cup {<<>>}
    /\ cfgProviders \in ProviderConfigLists
    /\ source \in {"file", "literal"}
    /\ boot = IF source = "file" THEN "start" ELSE "config"
    /\ npIdx = 1
    /\ providers = {}
    /\ adapters = [p \in {} |-> DummyAdapter]
    /\ pending = {1}
    /\ InitState

NextStartup ==
    \/ LoadConfig
    \/ NewProxyStep
    \/ NewProxyReturn
    \/ \E t \in Tasks : NilModelPanics(t)
    \/ \E t \in Tasks : LangchainUsagePanics(t)
    \/ Next

SpecStartup == InitStartup /\ [][NextStartup]_vars

\* ------------------------------------------------------------------------
\* The HTTP boundary: ProxyHandler.CreateChatCompletion and HandleError
\* ------------------------------------------------------------------------
\* c.ShouldBindJSON(&req) fails: 400, and the dispatch is never called.
RejectBody(t) ==
    /\ pc[t] = "idle"
    /\ t \in pending
    /\ boot = "ready"
    /\ pending' = pending \ {t}
    /\ httpResp' = [httpResp EXCEPT ![t] =
           <<[Status |-> 400, Body |-> [error |-> "Invalid request body"]]>>]
    /\ UNCHANGED <<config, startup, ctxDone, handled, wire, pc, locals, result, counters,
                   history>>

\* The dispatch has returned: HandleError(c, err), or c.JSON(200, resp).
Respond(t) ==
    /\ pc[t] = "done"
    /\ httpResp[t] = Nil
    /\ httpResp' = [httpResp EXCEPT ![t] =
           IF result[t].err # Nil
           THEN <<HandleError(<<result[t].err[1]>>)>>
           ELSE <<[Status |-> 200, Body |-> result[t].resp[1]]>>]
    /\ UNCHANGED <<config, startup, ctxDone, handled, wire, dispatch>>

\* HandleError applied to an error chain of any shape.
HandleErrorOn(chain) ==
    /\ handled = Nil
    /\ handled' = <<[err |-> chain, response |-> HandleError(chain)]>>
    /\ UNCHANGED <<config, startup, ctxDone, httpResp, wire, dispatch>>

\* Model A with the fallbacks B (not in the catalog) and A.
BoundaryCatalogs ==
    {c \in Catalogs : Len(c) = 1 /\ c[1].ID = "A" /\ c[1].Fallback = <<"B", "A">>}

InitBoundary ==
    /\ cfgModels \in BoundaryCatalogs \cup {<<>>}
    /\ providers \in SUBSET ProviderIDs
    /\ ProxyLiteral
    /\ pending = {1}
    /\ InitState

NextBoundary ==
    \/ Next
    \/ \E t \in Tasks : RejectBody(t) \/ Respond(t)
    \/ \E chain \in ErrorChains : HandleErrorOn(chain)

SpecBoundary == InitBoundary /\ [][NextBoundary]_vars

\* ------------------------------------------------------------------------
\* One call of OpenAICompatibleProvider.ChatCompletion
\* ------------------------------------------------------------------------
\* Entry: build url and headers, call DoRequest, which marshals the request
\* and creates the HTTP request; a URL that does not parse ends the call.
OpChatCompletion(r) ==
    /\ opPc = "idle"
    /\ opReq' = <<r>>
    /\ LET e == NewRequestErr(HTTPRequest(op[1], r).url)
       IN  IF e # Nil
           THEN /\ opResult' = [resp |-> Nil, err |-> <<OpError(op[1], e[1])>>]
                /\ opPc' = "done"
           ELSE /\ opPc' = "do"
                /\ UNCHANGED opResult
    /\ UNCHANGED <<config, startup, boundary, op, outbound, httpReply, dispatch>>

\* Variant: a request that failed or was answered with another status than
\* 200 is sent again.
ClientDoRetry(reply) ==
    /\ opPc = "do"
    /\ outbound' = Append(outbound, HTTPRequest(op[1], opReq[1]))
    /\ httpReply' = <<reply>>
    /\ opPc' = IF reply.err # Nil \/ reply.StatusCode # 200 THEN "do" ELSE "reply"
    /\ UNCHANGED <<config, startup, boundary, op, opReq, opResult, dispatch>>

\* httpResp, err := client.Do(httpReq)
ClientDo(reply) ==
    /\ opPc = "do"
    /\ outbound' = Append(outbound, HTTPRequest(op[1], opReq[1]))
    /\ httpReply' = <<reply>>
    /\ opPc' = "reply"
    /\ UNCHANGED <<config, startup, boundary, op, opReq, opResult, dispatch>>

\* The rest of DoRequest and the return of ChatCompletion: nil and the
\* wrapped error, or &apiResp and nil.
OpReturn ==
    /\ opPc = "reply"
    /\ LET out == DoRequestOutcome(httpReply[1])
       IN  opResult' = IF out.err # Nil
                       THEN [resp |-> Nil, err |-> <<OpError(op[1], out.err[1])>>]
                       ELSE [resp |-> <<out.value>>, err |-> Nil]
    /\ opPc' = "done"
    /\ UNCHANGED <<config, startup, boundary, op, opReq, outbound, httpReply, dispatch>>

\* One adapter call, of any request, by any adapter, against any upstream.
InitAdapter ==
    /\ cfgModels = <<>>
    /\ providers = {}
    /\ ProxyLiteral
    /\ pending = {}
    /\ InitDispatch
    /\ op \in {<<o>> : o \in OpProviders}
    /\ opPc = "idle"
    /\ opReq = Nil
    /\ outbound = <<>>
    /\ httpReply = Nil
    /\ opResult = NoResult

NextAdapter ==
    \/ \E r \in OpRequests : OpChatCompletion(r)
    \/ \E reply \in HTTPReplies : ClientDo(reply)
    \/ OpReturn

SpecAdapter == InitAdapter /\ [][NextAdapter]_vars

\* ------------------------------------------------------------------------
\* Reference notions used by the properties, read off the configuration and
\* the history alone
\* ------------------------------------------------------------------------
CatalogHas(id) == \E i \in 1..Len(cfgModels) : cfgModels[i].ID = id

EntryOf(id) ==
    cfgModels[CHOOSE i \in 1..Len(cfgModels) :
                 cfgModels[i].ID = id /\ \A j \in 1..(i - 1) : cfgModels[j].ID # id]

Resolves(id) == CatalogHas(id) /\ EntryOf(id).Provider \in providers

Candidates(t) == <<origReq[t].Model>> \o EntryOf(origReq[t].Model).Fallback

Started(t) == pc[t] # "idle"
Ended(t) == pc[t] \in {"done", "panic"}
NoSuccess(t) == \A i \in 1..Len(returned[t]) : returned[t][i] = Nil
LastInvoked(t) == invoked[t][Len(invoked[t])]

NotFoundResult ==
    [resp |-> Nil,
     err |-> <<[Typed |-> TRUE, Message |-> "model not found in config", Status |-> 404]>>]
ExhaustionResult ==
    [resp |-> Nil,
     err |-> <<[Typed |-> TRUE, Message |-> "failed to get completion from any provider",
                Status |-> 500]>>]

Only(k, n) == [x \in CounterKeys |-> IF x = k THEN n ELSE 0]

\* ------------------------------------------------------------------------
\* Properties
\* ------------------------------------------------------------------------

\* C1: a request whose model identifier is not in the catalog ends at once
\* with the not-found error and no response, and no adapter is invoked.
C1_NotFoundNoInvocation ==
    \A t \in Tasks :
        (Started(t) /\ ~CatalogHas(origReq[t].Model)) =>
            /\ pc[t] = "done"
            /\ result[t] = NotFoundResult
            /\ invoked[t] = <<>>

C1_Witness ==
    \E t \in Tasks :
        /\ pc[t] = "done"
        /\ ~CatalogHas(origReq[t].Model)
        /\ cfgModels # <<>>
        /\ providers # {}

PrimarySuccessReturned(t) ==
    ( /\ Ended(t)
      /\ Len(returned[t]) >= 1
      /\ invoked[t][1].candidate = 1
      /\ returned[t][1] # Nil ) =>
        /\ pc[t] = "done"
        /\ result[t] = [resp |-> returned[t][1], err |-> Nil]
        /\ Len(invoked[t]) = 1

\* C2: when the adapter of the primary model succeeds, the dispatch returns
\* exactly the response the adapter produced and invokes no fallback adapter.
C2_PrimarySuccessReturned == \A t \in Tasks : PrimarySuccessReturned(t)

FirstFallbackReturned(t) ==
    ( /\ Ended(t)
      /\ Len(returned[t]) >= 2
      /\ invoked[t][1].candidate = 1 /\ returned[t][1] = Nil
      /\ invoked[t][2].candidate = 2 /\ returned[t][2] # Nil ) =>
        /\ pc[t] = "done"
        /\ result[t] = [resp |-> returned[t][2], err |-> Nil]
        /\ Len(invoked[t]) = 2

\* C3: when the primary adapter fails and the adapter of the first fallback
\* succeeds, the dispatch returns the fallback's response after exactly two
\* invocations: the primary's, then the first fallback's.
C3_FirstFallbackReturned == \A t \in Tasks : FirstFallbackReturned(t)

AllResolve(t) == \A i \in 1..Len(Candidates(t)) : Resolves(Candidates(t)[i])

\* C4: when every candidate resolves and every adapter call fails, the
\* dispatch returns the exhaustion error with no response and each candidate
\* was attempted exactly once, primary first, then the fallbacks in list order.
C4_AllFailInOrder ==
    \A t \in Tasks :
        ( /\ pc[t] = "done"
          /\ CatalogHas(origReq[t].Model)
          /\ AllResolve(t)
          /\ NoSuccess(t) ) =>
            /\ result[t] = ExhaustionResult
            /\ Len(invoked[t]) = Len(Candidates(t))
            /\ \A i \in 1..Len(invoked[t]) :
                   /\ invoked[t][i].candidate = i
                   /\ invoked[t][i].modelID = Candidates(t)[i]
                   /\ invoked[t][i].provider = EntryOf(Candidates(t)[i]).Provider

C4_Witness ==
    \E t \in Tasks :
        /\ pc[t] = "done"
        /\ CatalogHas(origReq[t].Model)
        /\ AllResolve(t)
        /\ NoSuccess(t)
        /\ Len(invoked[t]) = 3
        /\ Candidates(t)[2] # Candidates(t)[3]
        /\ EntryOf(Candidates(t)[2]).Provider # EntryOf(Candidates(t)[3]).Provider

\* C5: after a successful dispatch (the only one so far) each of the three
\* counters of the (response model, provider) key has grown by the response's
\* count when that count is positive and has not changed when it is zero,
\* each count on its own; no other key has changed.
C5_CountersByUsage ==
    \A t \in Tasks :
        (pc[t] = "done" /\ result[t].resp # Nil) =>
            LET r == result[t].resp[1]
                u == r.Usage[1]
                k == <<r.Model, LastInvoked(t).provider>>
                Grown(c, n) ==
                    /\ n > 0 => c[k] = n
                    /\ n = 0 => c[k] = 0
                    /\ \A x \in CounterKeys \ {k} : c[x] = 0
            IN  /\ Grown(promptTokensTotal, u.PromptTokens)
                /\ Grown(completionTokensTotal, u.CompletionTokens)
                /\ Grown(totalTokensTotal, u.TotalTokens)

C5_Witness ==
    \E t \in Tasks :
        /\ pc[t] = "done"
        /\ result[t].resp # Nil
        /\ result[t].resp[1].Usage[1] =
               [PromptTokens |-> 2, CompletionTokens |-> 0, TotalTokens |-> 5]
        /\ promptTokensTotal[<<result[t].resp[1].Model, LastInvoked(t).provider>>] = 2
        /\ completionTokensTotal[<<result[t].resp[1].Model, LastInvoked(t).provider>>] = 0

ScenarioAB(t) ==
    /\ Len(cfgModels) = 2
    /\ cfgModels[1].ID = "A" /\ cfgModels[1].Provider = "p1"
    /\ cfgModels[1].Fallback = <<"B">>
    /\ cfgModels[2].ID = "B" /\ cfgModels[2].Provider = "p2"
    /\ cfgModels[2].Fallback = <<>>
    /\ providers = {"p1", "p2"}
    /\ origReq[t].Model = "A"
    /\ pc[t] = "done"
    /\ Len(returned[t]) = 2
    /\ returned[t][1] = Nil
    /\ returned[t][2] # Nil
    /\ returned[t][2][1].Model = "B"
    /\ returned[t][2][1].Usage =
           <<[PromptTokens |-> 2, CompletionTokens |-> 3, TotalTokens |-> 5]>>

\* C6: when a fallback candidate succeeds, the counters that grow are those
\* of (response model, provider of that fallback candidate) and no others;
\* with A -> p1 fallback [B], B -> p2, p1 failing and p2 answering model B
\* with usage (2,3,5), dispatching A adds (2,3,5) to (B, p2) and changes no
\* counter of p1.
C6_FallbackKey ==
    \A t \in Tasks :
        /\ ( /\ pc[t] = "done"
             /\ result[t].resp # Nil
             /\ LastInvoked(t).candidate > 1 ) =>
               LET r == result[t].resp[1]
                   k == <<r.Model, EntryOf(Candidates(t)[LastInvoked(t).candidate]).Provider>>
                   Pos(n) == IF n > 0 THEN n ELSE 0
               IN  /\ promptTokensTotal = Only(k, Pos(r.Usage[1].PromptTokens))
                   /\ completionTokensTotal = Only(k, Pos(r.Usage[1].CompletionTokens))
                   /\ totalTokensTotal = Only(k, Pos(r.Usage[1].TotalTokens))
        /\ ScenarioAB(t) =>
               /\ result[t].resp # Nil /\ result[t].resp[1].Model = "B"
               /\ promptTokensTotal = Only(<<"B", "p2">>, 2)
               /\ completionTokensTotal = Only(<<"B", "p2">>, 3)
               /\ totalTokensTotal = Only(<<"B", "p2">>, 5)

C6_Witness == \E t \in Tasks : ScenarioAB(t)

Occurrences(s, x) == Cardinality({i \in 1..Len(s) : s[i] = x})
InvokedIDs(t) == [i \in 1..Len(invoked[t]) |-> invoked[t][i].modelID]
SelfFallback(t) ==
    /\ Started(t)
    /\ Resolves(origReq[t].Model)
    /\ EntryOf(origReq[t].Model).Fallback = <<origReq[t].Model>>

\* C7: the candidate list is not deduplicated: when all attempts fail, a
\* model is attempted as many times as it occurs in [primary] + fallbacks.
\* For a model whose fallback list is itself, never more than two attempts
\* are made, and the dispatch ends after exactly two with the exhaustion error.
C7_NoDeduplication ==
    \A t \in Tasks :
        /\ (pc[t] = "done" /\ CatalogHas(origReq[t].Model) /\ NoSuccess(t)) =>
               \A m \in ModelIDs :
                   Resolves(m) =>
                       Occurrences(InvokedIDs(t), m) = Occurrences(Candidates(t), m)
        /\ SelfFallback(t) =>
               /\ Len(invoked[t]) <= 2
               /\ (pc[t] = "done" /\ NoSuccess(t)) =>
                      /\ Len(invoked[t]) = 2
                      /\ InvokedIDs(t) = <<origReq[t].Model, origReq[t].Model>>
                      /\ result[t] = ExhaustionResult

C7_Witness ==
    \E t \in Tasks :
        /\ SelfFallback(t)
        /\ pc[t] = "done"
        /\ NoSuccess(t)
        /\ Len(invoked[t]) = 2

\* C8: a candidate whose identifier is not in the catalog is skipped: no
\* adapter is invoked for it, the candidates after it are still attempted,
\* and when no candidate succeeds the result is the exhaustion error, never
\* the not-found error.
C8_MissingCandidateSkipped ==
    \A t \in Tasks :
        /\ \A i \in 1..Len(invoked[t]) : CatalogHas(invoked[t][i].modelID)
        /\ (pc[t] = "done" /\ CatalogHas(origReq[t].Model) /\ NoSuccess(t)) =>
               /\ result[t] = ExhaustionResult
               /\ {invoked[t][i].candidate : i \in 1..Len(invoked[t])} =
                      {i \in 1..Len(Candidates(t)) : Resolves(Candidates(t)[i])}

C8_Witness ==
    \E t \in Tasks :
        /\ pc[t] = "done"
        /\ NoSuccess(t)
        /\ CatalogHas(origReq[t].Model)
        /\ Len(Candidates(t)) = 3
        /\ ~CatalogHas(Candidates(t)[2])
        /\ Len(invoked[t]) = 2
        /\ LastInvoked(t).candidate = 3

ProviderMissing(t, i) ==
    /\ CatalogHas(Candidates(t)[i])
    /\ EntryOf(Candidates(t)[i]).Provider \notin providers

MissingProviderSkipped(t) ==
    (Started(t) /\ CatalogHas(origReq[t].Model)) =>
        /\ \A j \in 1..Len(invoked[t]) : ~ProviderMissing(t, invoked[t][j].candidate)
        /\ (Ended(t) /\ ProviderMissing(t, 1) /\ NoSuccess(t)) =>
               /\ pc[t] = "done"
               /\ result[t] = ExhaustionResult
        /\ ( /\ Ended(t)
             /\ ~NoSuccess(t)
             /\ \E i \in 1..(LastInvoked(t).candidate - 1) : ProviderMissing(t, i) ) =>
               /\ pc[t] = "done"
               /\ result[t] = [resp |-> returned[t][Len(returned[t])], err |-> Nil]

\* C9: a candidate whose provider is not in the registry is skipped without
\* an adapter invocation and the dispatch goes on: it ends with the
\* exhaustion error when the primary's provider is missing and no candidate
\* succeeds, and with the response of the later candidate whose adapter
\* succeeds otherwise.
C9_MissingProviderSkipped == \A t \in Tasks : MissingProviderSkipped(t)

\* C10: the request handed to the dispatch is never changed by it, whatever
\* the number of attempts and the outcome.
C10_RequestUnchanged ==
    \A t \in Tasks : Started(t) => req[t] = origReq[t]

C10_Witness ==
    \E t \in Tasks :
        /\ Ended(t)
        /\ Len(invoked[t]) >= 2
        /\ \A i \in 1..Len(invoked[t]) : invoked[t][i].req.Model # origReq[t].Model
        /\ req[t] = origReq[t]

\* C11: the request of every attempt is the caller's request in every field
\* but the model, and its model is the display name of the candidate being
\* attempted (of the first catalog entry with the candidate's identifier).
C11_AttemptRequest ==
    \A t \in Tasks :
        \A i \in 1..Len(invoked[t]) :
            LET a == invoked[t][i].req
            IN  /\ DOMAIN a = DOMAIN origReq[t]
                /\ \A f \in DOMAIN a \ {"Model"} : a[f] = origReq[t][f]
                /\ a.Model = EntryOf(Candidates(t)[invoked[t][i].candidate]).Name

C11_Witness ==
    \E t \in Tasks :
        /\ Len(invoked[t]) = 2
        /\ invoked[t][1].req.Model # invoked[t][2].req.Model
        /\ invoked[t][2].req.Model # invoked[t][2].modelID
        /\ invoked[t][2].req.Messages = origReq[t].Messages
        /\ origReq[t].Messages # <<>>

\* C12: once the caller's context is cancelled during the loop, no adapter
\* invocation for a further candidate is started: no invocation after the
\* first of a dispatch starts under a cancelled context.
C12_NoInvocationAfterCancel ==
    \A t \in Tasks :
        \A i \in 2..Len(invoked[t]) : ~invoked[t][i].cancelled

\* C13: every adapter invocation is given the context of its caller, and an
\* adapter call that was started before the cancellation and is in flight
\* when the context is cancelled does not run to completion: it never ends
\* with a response.
C13_CancelReachesAdapter ==
    [][\A t \in Tasks :
          /\ \A i \in 1..Len(invoked'[t]) : invoked'[t][i].ctx = t
          /\ ( /\ pc[t] = "call"
               /\ ~LastInvoked(t).cancelled
               /\ ctxDone[t]
               /\ pc'[t] # "call" ) =>
                 returned'[t][Len(returned'[t])] = Nil]_vars

Positive(n) == IF n > 0 THEN n ELSE 0
Returned(t) == pc[t] = "done" /\ result[t].resp # Nil
KeyOf(t) == <<result[t].resp[1].Model, LastInvoked(t).provider>>

\* The positive counts of one kind that the responses returned to the tasks
\* of S report for the key k, added up.
RECURSIVE SumTokens(_, _, _)
SumTokens(S, k, kind) ==
    IF S = {} THEN 0
    ELSE LET t == CHOOSE x \in S : TRUE
         IN  (IF Returned(t) /\ KeyOf(t) = k
              THEN Positive(result[t].resp[1].Usage[1][kind]) ELSE 0)
             + SumTokens(S \ {t}, k, kind)

AllEnded == pending = {} /\ \A t \in Tasks : Ended(t)

\* C14: whatever the interleaving of concurrent dispatches, once all have
\* returned each counter of each key holds the sum of the positive counts of
\* the responses returned for that key (the counters start at zero).
C14_NoLostIncrement ==
    AllEnded =>
        \A k \in CounterKeys :
            /\ promptTokensTotal[k] = SumTokens(Tasks, k, "PromptTokens")
            /\ completionTokensTotal[k] = SumTokens(Tasks, k, "CompletionTokens")
            /\ totalTokensTotal[k] = SumTokens(Tasks, k, "TotalTokens")

C14_Witness ==
    /\ AllEnded
    /\ \A t \in Tasks : Returned(t)
    /\ KeyOf(1) = KeyOf(2)
    /\ promptTokensTotal[KeyOf(1)] = 4
    /\ completionTokensTotal[KeyOf(1)] = 3
    /\ totalTokensTotal[KeyOf(1)] = 10

ExhaustedRun(t) ==
    pc[t] = "done" /\ CatalogHas(origReq[t].Model) /\ result[t].resp = Nil

\* C15: the exhaustion error tells nothing about the attempts: two dispatches
\* of the same request that both end without a response return the same
\* error value, whatever errors their adapters returned, and that value is
\* none of the adapters' errors.
C15_ExhaustionErrorUniform ==
    \A t1, t2 \in Tasks :
        (ExhaustedRun(t1) /\ ExhaustedRun(t2) /\ origReq[t1] = origReq[t2]) =>
            /\ result[t1] = result[t2]
            /\ result[t1].err # Nil
            /\ \A e \in AdapterErrors : result[t1].err[1].Message # e.Message

C15_Witness ==
    /\ ExhaustedRun(1) /\ ExhaustedRun(2)
    /\ origReq[1] = origReq[2]
    /\ err[1] # Nil /\ err[2] # Nil
    /\ err[1] # err[2]
    /\ Len(invoked[1]) = 2 /\ Len(invoked[2]) = 2

OneOfThreeOutcomes(t) ==
    Ended(t) =>
        /\ pc[t] = "done"
        /\ \/ /\ result[t].err = Nil
              /\ result[t].resp # Nil
              /\ Len(returned[t]) >= 1
              /\ result[t].resp = returned[t][Len(returned[t])]
           \/ result[t] = NotFoundResult
           \/ result[t] = ExhaustionResult

\* C16: every dispatch ends in one of three outcomes: the response of an
\* adapter and no error, the not-found error and no response, or the
\* exhaustion error and no response; nothing else is ever returned.
C16_OneOfThreeOutcomes == \A t \in Tasks : OneOfThreeOutcomes(t)

\* C17: at the HTTP boundary the not-found error of a dispatch is answered
\* with a 4xx status and the exhaustion error with a 5xx status; HandleError
\* answers with the status of the typed error it finds (the error itself or
\* one it wraps) and with 500 "Internal server error" when there is none.
C17_StatusAtBoundary ==
    /\ \A t \in Tasks :
           (pc[t] = "done" /\ httpResp[t] # Nil) =>
               /\ result[t] = NotFoundResult =>
                      httpResp[t][1].Status \in 400..499
               /\ result[t] = ExhaustionResult =>
                      httpResp[t][1].Status \in 500..599
               /\ result[t].err # Nil =>
                      /\ httpResp[t][1].Status = result[t].err[1].Status
                      /\ httpResp[t][1].Body.message = result[t].err[1].Message
               /\ result[t].err = Nil => httpResp[t][1].Status = 200
    /\ handled # Nil =>
           LET chain == handled[1].err
               out == handled[1].response
               typed == {i \in 1..Len(chain) : chain[i].Typed}
           IN  IF typed = {}
               THEN out.Status = 500 /\ out.Body.message = "Internal server error"
               ELSE \E i \in typed :
                       /\ \A j \in typed : i <= j
                       /\ out.Status = chain[i].Status
                       /\ out.Body.message = chain[i].Message

C17_Witness ==
    /\ \E t \in Tasks :
           /\ pc[t] = "done"
           /\ result[t] = ExhaustionResult
           /\ httpResp[t] # Nil
           /\ httpResp[t][1].Status = 500
    /\ handled # Nil
    /\ Len(handled[1].err) = 2
    /\ ~handled[1].err[1].Typed
    /\ handled[1].err[2].Typed
    /\ handled[1].response.Status = 404

C17_WitnessUntyped ==
    /\ \E t \in Tasks :
           /\ result[t] = NotFoundResult
           /\ httpResp[t] # Nil
           /\ httpResp[t][1].Status = 404
    /\ handled # Nil
    /\ \A i \in 1..Len(handled[1].err) : ~handled[1].err[i].Typed
    /\ handled[1].response.Status = 500

\* Provider entries whose adapter cannot be constructed: a kind that needs a
\* credential, configured without one.
FailingEntries ==
    {i \in 1..Len(cfgProviders) :
        cfgProviders[i].Provider = "openai" /\ cfgProviders[i].APIKey = ""}
UnknownKindEntries ==
    {i \in 1..Len(cfgProviders) : cfgProviders[i].Provider \notin {"dummy", "openai"}}
ConfiguredIDs == {cfgProviders[i].ID : i \in 1..Len(cfgProviders)}

\* C18: when the adapter of some configured provider cannot be constructed,
\* NewProxy never returns a Proxy (it stops at the first such entry, with an
\* error) and no request is dispatched; a request is only ever dispatched
\* against a registry that holds every configured provider.
C18_FailFast ==
    /\ FailingEntries # {} =>
           /\ boot # "ready"
           /\ \A i \in FailingEntries : npIdx <= i
           /\ \A t \in Tasks : ~Started(t)
    /\ \A t \in Tasks : Started(t) => (boot = "ready" /\ ConfiguredIDs \subseteq providers)

C18_Witness ==
    /\ boot = "failed"
    /\ source = "literal"
    /\ FailingEntries = {2}
    /\ npIdx = 2
    /\ providers # {}
    /\ \A t \in Tasks : ~Started(t)

\* C19: after a successful NewProxy the registry holds one adapter for each
\* provider entry: as many registry entries as provider entries, every
\* configured identifier among them.
C19_OneAdapterPerProvider ==
    boot = "ready" =>
        /\ Cardinality(providers) = Len(cfgProviders)
        /\ ConfiguredIDs = providers

\* C20: with a provider entry of an unknown kind neither config.Load nor
\* NewProxy succeeds, and the registry of a Proxy holds no adapter built for
\* an unknown kind.
C20_UnknownKindFatal ==
    /\ (source = "file" /\ boot \in {"config", "ready"}) => UnknownKindEntries = {}
    /\ boot = "ready" =>
           /\ UnknownKindEntries = {}
           /\ \A p \in providers : adapters[p] # NilModelAdapter

\* C21: for every (model, provider) key, in every reachable state, the
\* total-tokens counter equals the prompt-tokens counter plus the
\* completion-tokens counter.
C21_TotalIsSum ==
    \A k \in CounterKeys :
        totalTokensTotal[k] = promptTokensTotal[k] + completionTokensTotal[k]

InFlight(t) == Len(invoked[t]) - Len(returned[t])

\* C24: within one dispatch at most one adapter invocation is in flight in
\* any state (while the handler waits in the adapter call, and only then), and
\* an invocation for a later candidate exists only when every earlier
\* invocation of the dispatch has returned a failure.
C24_OneAtATime ==
    \A t \in Tasks :
        /\ InFlight(t) \in {0, 1}
        /\ InFlight(t) = 1 <=> pc[t] = "call"
        /\ \A i \in 1..(Len(invoked[t]) - 1) :
               /\ returned[t][i] = Nil
               /\ invoked[t][i].candidate < invoked[t][i + 1].candidate

C24_Witness ==
    /\ \A t \in Tasks : pc[t] = "call"
    /\ Len(invoked[1]) = 2
    /\ Len(returned[1]) = 1
    /\ Len(invoked[2]) = 1

CandidateListBounded(t) ==
    (Started(t) /\ CatalogHas(origReq[t].Model)) =>
        /\ modelsToTry[t] = Candidates(t)
        /\ Len(invoked[t]) <= 1 + Len(EntryOf(origReq[t].Model).Fallback)
        /\ \A i \in 1..Len(invoked[t]) :
               /\ invoked[t][i].candidate \in 1..Len(Candidates(t))
               /\ invoked[t][i].modelID = Candidates(t)[invoked[t][i].candidate]
               /\ \A j \in 1..(i - 1) : invoked[t][j].candidate < invoked[t][i].candidate

\* C25: the candidate list is the requested model followed by the fallback
\* list of the requested model and nothing else (the fallback lists of the
\* fallback models are not followed), so for every catalog, cyclic references
\* included, a dispatch makes at most 1 + len(fallbacks of the requested
\* model) adapter invocations, and, every adapter call returning, it returns.
C25_BoundedCandidates ==
    /\ [](\A t \in Tasks : CandidateListBounded(t))
    /\ \A t \in Tasks : Started(t) ~> (pc[t] = "done")

\* The positions, from i on, of the candidates of c whose model and provider
\* resolve, in order.
RECURSIVE Resolving(_, _)
Resolving(c, i) ==
    IF i > Len(c) THEN <<>>
    ELSE (IF Resolves(c[i]) THEN <<i>> ELSE <<>>) \o Resolving(c, i + 1)

ReferenceRule(t) ==
    (Ended(t) /\ CatalogHas(origReq[t].Model)) =>
        LET kept == Resolving(Candidates(t), 1)
            n == Len(invoked[t])
        IN  /\ n <= Len(kept)
            /\ Len(returned[t]) = n
            /\ \A i \in 1..n :
                   /\ invoked[t][i].candidate = kept[i]
                   /\ invoked[t][i].modelID = Candidates(t)[kept[i]]
                   /\ invoked[t][i].provider = EntryOf(Candidates(t)[kept[i]]).Provider
            /\ \A i \in 1..(n - 1) : returned[t][i] = Nil
            /\ pc[t] = "done"
            /\ IF n > 0 /\ returned[t][n] # Nil
               THEN result[t] = [resp |-> returned[t][n], err |-> Nil]
               ELSE n = Len(kept) /\ result[t] = ExhaustionResult

\* C26: for every catalog, registry and outcome of the adapter calls the
\* dispatch does what the reference rule does: of the candidates in order,
\* those that do not resolve dropped, the adapters are invoked up to and
\* including the first that succeeds; the invocations are exactly that prefix
\* and the result is that adapter's response, or the exhaustion error when
\* none succeeds.
C26_ReferenceRule == \A t \in Tasks : ReferenceRule(t)

NotLower(c, cNext) == \A k \in CounterKeys : cNext[k] >= c[k]

\* C27: the usage counters never decrease and are never reset: in no step of
\* any interleaving of dispatches does a counter of any key take a lower
\* value than it had.
C27_Monotonic ==
    [][/\ NotLower(promptTokensTotal, promptTokensTotal')
       /\ NotLower(completionTokensTotal, completionTokensTotal')
       /\ NotLower(totalTokensTotal, totalTokensTotal')]_vars

C27_Witness ==
    /\ AllEnded
    /\ \E t \in Tasks :
           /\ Returned(t)
           /\ result[t].resp[1].Usage[1].PromptTokens < 0
           /\ promptTokensTotal[KeyOf(t)] = 2
           /\ completionTokensTotal[KeyOf(t)] = 6

ChangedKeys(c, cNext) == {k \in CounterKeys : cNext[k] # c[k]}
Successes(t) == {i \in 1..Len(returned[t]) : returned[t][i] # Nil}

\* The step changes the counter c at the key k only as the step `at` of a
\* dispatch whose last adapter call succeeded and which has not returned, k
\* being the key of that response and of the provider of that candidate.
OnlyOnSuccess(c, cNext, at) ==
    \A k \in ChangedKeys(c, cNext) :
        \E t \in Tasks :
            /\ pc[t] = at /\ pc'[t] # at
            /\ result[t] = NoResult
            /\ Len(returned[t]) = Len(invoked[t])
            /\ returned[t][Len(returned[t])] # Nil
            /\ k = <<returned[t][Len(returned[t])][1].Model, LastInvoked(t).provider>>
            /\ ChangedKeys(c, cNext) = {k}

\* C28: counters change only on success and once per dispatch: a step that
\* changes a counter is a step of a dispatch whose adapter call has just
\* succeeded, taken before the dispatch returns, and changes the counter of
\* the one key of the candidate that succeeded; a dispatch passes each of
\* the three increments at most once; a failed or skipped attempt, and a
\* dispatch that ends in not-found or exhaustion, changes no counter.
C28_CountersOnlyOnSuccess ==
    /\ [][/\ OnlyOnSuccess(promptTokensTotal, promptTokensTotal', "prompt")
          /\ OnlyOnSuccess(completionTokensTotal, completionTokensTotal', "completion")
          /\ OnlyOnSuccess(totalTokensTotal, totalTokensTotal', "total")
          /\ \A t \in Tasks :
                 (pc[t] \in {"prompt", "completion", "total"} /\ pc'[t] # pc[t]) =>
                     pc'[t] \notin {"loop", "call", pc[t]}]_vars
    /\ [](\A t \in Tasks : Cardinality(Successes(t)) <= 1)
    /\ []((\A t \in Tasks : Successes(t) = {}) =>
              \A k \in CounterKeys :
                  /\ promptTokensTotal[k] = 0
                  /\ completionTokensTotal[k] = 0
                  /\ totalTokensTotal[k] = 0)

C28_Witness ==
    /\ AllEnded
    /\ Returned(1)
    /\ Len(returned[1]) = 2
    /\ ExhaustedRun(2)
    /\ Len(invoked[2]) = 2
    /\ promptTokensTotal = Only(KeyOf(1), 2)
    /\ completionTokensTotal = Only(KeyOf(1), 3)
    /\ totalTokensTotal = Only(KeyOf(1), 5)

\* C29: once the Proxy exists, no step (of a dispatch, whatever its outcome)
\* adds, removes or changes an entry of the catalog or of the registry.
C29_ConfigReadOnly ==
    [][boot = "ready" => UNCHANGED <<cfgModels, cfgProviders, providers, adapters>>]_vars

C29_Witness ==
    /\ boot = "ready"
    /\ source = "file"
    /\ Cardinality(providers) = 2
    /\ \E t \in Tasks :
           /\ pc[t] = "done"
           /\ result[t] = ExhaustionResult
           /\ Len(invoked[t]) = 1
           /\ Len(Candidates(t)) = 2

\* What a dispatch that has ended did and returned, as a function of its
\* request, the catalog, the registry and the answers of its own adapter
\* calls.
Determined(t) ==
    Ended(t) =>
        IF ~CatalogHas(origReq[t].Model)
        THEN pc[t] = "done" /\ result[t] = NotFoundResult /\ invoked[t] = <<>>
        ELSE LET kept == Resolving(Candidates(t), 1)
                 n == Len(invoked[t])
             IN  /\ n <= Len(kept)
                 /\ Len(returned[t]) = n
                 /\ \A i \in 1..n : invoked[t][i].candidate = kept[i]
                 /\ \A i \in 1..(n - 1) : returned[t][i] = Nil
                 /\ IF n > 0 /\ returned[t][n] # Nil
                    THEN IF returned[t][n][1].Usage = Nil
                         THEN pc[t] = "panic" /\ result[t] = NoResult
                         ELSE /\ pc[t] = "done"
                              /\ result[t] = [resp |-> returned[t][n], err |-> Nil]
                    ELSE /\ n = Len(kept)
                         /\ pc[t] = "done"
                         /\ result[t] = ExhaustionResult

WithoutCtx(t) ==
    [i \in 1..Len(invoked[t]) |->
        [candidate |-> invoked[t][i].candidate, modelID |-> invoked[t][i].modelID,
         provider |-> invoked[t][i].provider, req |-> invoked[t][i].req]]

\* C30: dispatches are independent: what a dispatch does and returns is
\* determined by its own request, the catalog, the registry and the answers
\* of its own adapter calls, whatever other dispatches did before it or do
\* next to it; two dispatches of one request whose adapter calls are answered
\* alike make the same invocations and end alike.
C30_Independent ==
    /\ \A t \in Tasks : Determined(t)
    /\ \A t1, t2 \in Tasks :
           (Ended(t1) /\ Ended(t2) /\ origReq[t1] = origReq[t2]
                /\ returned[t1] = returned[t2]) =>
               /\ WithoutCtx(t1) = WithoutCtx(t2)
               /\ pc[t1] = pc[t2]
               /\ result[t1] = result[t2]

C30_Witness ==
    /\ AllEnded
    /\ returned[1] = returned[2]
    /\ Len(returned[1]) = 2
    /\ Returned(1)
    /\ totalTokensTotal[KeyOf(1)] = 10

\* The last adapter call of the dispatch t succeeded with a response whose
\* usage is nil.
SucceededWithoutUsage(t) ==
    /\ returned[t] # <<>>
    /\ returned[t][Len(returned[t])] # Nil
    /\ returned[t][Len(returned[t])][1].Usage = Nil

\* C31: a successful adapter response without usage (usage nil, as the
\* langchain adapter returns it when no choice carries a count) is returned
\* to the caller like any other success and changes no counter: the dispatch
\* never faults on it, and once it has ended its result is that response
\* with a nil error and every counter of a dispatch that saw no other
\* success is still zero.
C31_NoFaultWithoutUsage ==
    \A t \in Tasks :
        SucceededWithoutUsage(t) =>
            /\ pc[t] # "panic"
            /\ Ended(t) =>
                   /\ result[t] = Success(returned[t][Len(returned[t])][1])
                   /\ \A k \in CounterKeys :
                          /\ promptTokensTotal[k] = 0
                          /\ completionTokensTotal[k] = 0
                          /\ totalTokensTotal[k] = 0

Counted(k) ==
    \/ promptTokensTotal[k] # 0
    \/ completionTokensTotal[k] # 0
    \/ totalTokensTotal[k] # 0

SucceededLast(t) == returned[t] # <<>> /\ returned[t][Len(returned[t])] # Nil

\* The candidates of the dispatch t other than the one invoked last.
OtherCandidates(t) ==
    {Candidates(t)[i] : i \in 1..Len(Candidates(t))} \ {LastInvoked(t).modelID}

\* The key k is the key of the success of the dispatch t: its model is the
\* model echoed in the response, which is the display name of the candidate
\* that succeeded, not empty, and not the identifier of another candidate.
KeyOfSuccess(k, t) ==
    /\ SucceededLast(t)
    /\ k[2] = LastInvoked(t).provider
    /\ k[1] = returned[t][Len(returned[t])][1].Model
    /\ k[1] = EntryOf(LastInvoked(t).modelID).Name
    /\ k[1] = LastInvoked(t).req.Model
    /\ k[1] # ""
    /\ k[1] \notin OtherCandidates(t)

\* C32: on every successful dispatch the model component of the counter key
\* is the model name echoed in the response, which equals the display name
\* of the candidate that succeeded (the name sent upstream); it is never
\* empty and never the identifier of a different candidate.  Every key with
\* a counted token is the key of the success of some dispatch.
C32_KeyIsDisplayName ==
    \A k \in CounterKeys : Counted(k) => \E t \in Tasks : KeyOfSuccess(k, t)

\* The adapter call of the dispatch t returns an error in this step.
AdapterErrorStep(t) ==
    /\ pc[t] = "call"
    /\ Len(returned'[t]) = Len(returned[t]) + 1
    /\ returned'[t][Len(returned'[t])] = Nil

\* The attempt i of the dispatch t was rejected by the langchain adapter for
\* an unknown message role, with the typed not-found error.
RejectedForRole(t, i) ==
    /\ i <= Len(returned[t])
    /\ returned[t][i] = Nil
    /\ invoked[t][i].provider \in DOMAIN adapters
    /\ adapters[invoked[t][i].provider] = LangchainAdapter
    /\ \E j \in 1..Len(invoked[t][i].req.Messages) :
           invoked[t][i].req.Messages[j] \notin KnownRoles

\* C33: every adapter error is recovered the same way, an error caused by
\* the request itself (an unknown message role, rejected by the langchain
\* adapter with a typed not-found error before any upstream call) included:
\* the step in which an adapter returns an error, whatever the error, goes
\* back to the loop at the next candidate, with no result and no counter
\* changed; and an error result of a dispatch is the handler's own not-found
\* error, with no adapter invoked, or the exhaustion error, never the
\* adapter's error.
C33_AdapterErrorNeverReturned ==
    /\ [][\A t \in Tasks :
              AdapterErrorStep(t) =>
                  /\ err'[t] # Nil
                  /\ pc'[t] = "loop"
                  /\ idx'[t] = idx[t] + 1
                  /\ result'[t] = NoResult
                  /\ modelsToTry'[t] = modelsToTry[t]
                  /\ counters' = counters]_vars
    /\ [](\A t \in Tasks :
              (pc[t] = "done" /\ result[t].err # Nil) =>
                  \/ result[t] = NotFoundResult /\ invoked[t] = <<>>
                  \/ result[t] = ExhaustionResult /\ NoSuccess(t))

\* The primary candidate was rejected by the langchain adapter for an unknown
\* role, with the typed not-found error, and the dispatch went on: it ended
\* with the response of the fallback candidate.
C33_Witness ==
    /\ pc[1] = "done"
    /\ Len(invoked[1]) = 2
    /\ RejectedForRole(1, 1)
    /\ result[1].resp # Nil
    /\ result[1].resp = returned[1][2]

\* The only candidate was rejected so, and the dispatch ended with the
\* exhaustion error.
C33_WitnessExhausted ==
    /\ pc[1] = "done"
    /\ Len(invoked[1]) = 1
    /\ RejectedForRole(1, 1)
    /\ err[1] = <<WithMessage(ErrNotFound, "unknown chat message role")>>
    /\ result[1] = ExhaustionResult

\* C34: when two catalog entries share a model identifier, every lookup, of
\* the requested model and of each candidate, resolves to the entry that
\* comes first in configured order: the candidate list of a dispatch is the
\* requested model followed by the fallback list of the first entry of the
\* requested model, and every invocation is made through the provider, and
\* with the display name, of the first entry of its candidate; the provider,
\* name and fallback list of a later entry are never used.
C34_FirstEntryWins ==
    \A t \in Tasks :
        /\ (Started(t) /\ CatalogHas(origReq[t].Model)) =>
               modelsToTry[t] = Candidates(t)
        /\ (Started(t) /\ ~CatalogHas(origReq[t].Model)) =>
               (invoked[t] = <<>> /\ result[t] = NotFoundResult)
        /\ \A i \in 1..Len(invoked[t]) :
               /\ invoked[t][i].modelID = Candidates(t)[invoked[t][i].candidate]
               /\ invoked[t][i].provider = EntryOf(invoked[t][i].modelID).Provider
               /\ invoked[t][i].provider \in providers
               /\ invoked[t][i].req.Model = EntryOf(invoked[t][i].modelID).Name

\* The catalog has two entries of the requested model that differ in name,
\* provider and fallback list, both providers are registered, and the
\* dispatch ended with the response of the fallback candidate, which is the
\* requested model again, taken from the fallback list of the first entry.
C34_Witness ==
    /\ Len(cfgModels) = 2
    /\ cfgModels[1].ID = cfgModels[2].ID
    /\ cfgModels[1].Name # cfgModels[2].Name
    /\ cfgModels[1].Provider # cfgModels[2].Provider
    /\ cfgModels[1].Fallback # cfgModels[2].Fallback
    /\ cfgModels[1].Provider \in providers
    /\ cfgModels[2].Provider \in providers
    /\ Returned(1)
    /\ Len(invoked[1]) = 2
    /\ invoked[1][2].modelID = origReq[1].Model
    /\ invoked[1][2].provider = cfgModels[1].Provider

\* The dispatch t is in a call of the synthetic adapter.
InDummyCall(t) == pc[t] = "call" /\ AdapterOf(t) = DummyAdapter

\* C35: the synthetic adapter never fails and makes no network call: a call
\* of it ends only by returning a response, no error, and sends no request
\* on the wire; for a request with n messages the response echoes the model
\* of the request it was given and reports 5*n prompt tokens, 10 completion
\* tokens and their sum as the total.
C35_DummyAdapter ==
    [][\A t \in Tasks :
           (InDummyCall(t) /\ pc'[t] # "call") =>
               LET n == Len(LastInvoked(t).req.Messages)
                   r == returned'[t][Len(returned'[t])]
               IN  /\ pc'[t] = "prompt"
                   /\ Len(returned'[t]) = Len(returned[t]) + 1
                   /\ r # Nil
                   /\ err'[t] = Nil
                   /\ resp'[t] = r
                   /\ r[1].Model = LastInvoked(t).req.Model
                   /\ r[1].Usage # Nil
                   /\ r[1].Usage[1].PromptTokens = 5 * n
                   /\ r[1].Usage[1].CompletionTokens = 10
                   /\ r[1].Usage[1].TotalTokens =
                          r[1].Usage[1].PromptTokens + r[1].Usage[1].CompletionTokens
                   /\ outbound' = outbound
                   /\ httpReply' = httpReply]_vars

\* A request of two messages was answered by the synthetic adapter with 10
\* prompt tokens, 10 completion tokens and a total of 20, and the response
\* was returned.
C35_Witness ==
    /\ Returned(1)
    /\ Len(origReq[1].Messages) = 2
    /\ LastInvoked(1).provider \in DOMAIN adapters
    /\ adapters[LastInvoked(1).provider] = DummyAdapter
    /\ result[1].resp[1].Model = LastInvoked(1).req.Model
    /\ result[1].resp[1].Usage[1].PromptTokens = 10
    /\ result[1].resp[1].Usage[1].TotalTokens = 20
    /\ totalTokensTotal[KeyOf(1)] = 20

Answered == httpReply # Nil /\ httpReply[1].err = Nil
StartsWithValue(body) == body # <<>> /\ body[1].type \in {"object", "null"}
Carries(e, status, body) == e.Cause.StatusCode = <<status>> /\ e.Cause.Body = <<body>>

\* C22: the HTTP-JSON adapter returns an error for every status other than
\* 200 and for every body that does not decode, and that error carries the
\* status code and the raw body; it returns a response only for a 200 status
\* with a body that decodes; with an error it returns no response.
C22_ErrorCarriesStatusAndBody ==
    opPc = "done" =>
        /\ opResult.err # Nil => opResult.resp = Nil
        /\ opResult.resp # Nil =>
               /\ Answered
               /\ httpReply[1].StatusCode = 200
               /\ StartsWithValue(httpReply[1].Body)
        /\ ( /\ Answered
             /\ httpReply[1].StatusCode # 200 \/ ~StartsWithValue(httpReply[1].Body) ) =>
               /\ opResult.err # Nil
               /\ Carries(opResult.err[1], httpReply[1].StatusCode, httpReply[1].Body)

\* C23: one ChatCompletion call of the HTTP-JSON adapter hands at most one
\* request to the HTTP client, whatever answer it gets (a network error, a
\* status other than 200, a body that does not decode), and exactly one once
\* it has an answer.
C23_NoRetry ==
    /\ Len(outbound) <= 1
    /\ (opPc = "done" /\ httpReply # Nil) => Len(outbound) = 1
    /\ \A i \in 1..Len(outbound) : outbound[i].body = opReq[1]

C23_Witness ==
    /\ opPc = "done"
    /\ opResult.err # Nil
    /\ Answered
    /\ httpReply[1].StatusCode = 500
    /\ Len(outbound) = 1

C23_WitnessNetworkError ==
    /\ opPc = "done"
    /\ opResult.err # Nil
    /\ httpReply # Nil /\ httpReply[1].err # Nil
    /\ Len(outbound) = 1

C23_WitnessMalformedBody ==
    /\ opPc = "done"
    /\ opResult.err # Nil
    /\ Answered
    /\ httpReply[1].StatusCode = 200
    /\ ~StartsWithValue(httpReply[1].Body)
    /\ Len(outbound) = 1

\* The properties C2, C3, C9, C16, C25 and C26 that the handler breaks are
\* broken by one fault only, the read of resp.Usage through a nil pointer:
\* for dispatches in which every successful adapter response carries usage,
\* they hold.
UsagePresent(t) ==
    \A i \in 1..Len(returned[t]) :
        returned[t][i] # Nil => returned[t][i][1].Usage # Nil

PrimarySuccessReturnedWithUsage ==
    \A t \in Tasks : UsagePresent(t) => PrimarySuccessReturned(t)

FirstFallbackReturnedWithUsage ==
    \A t \in Tasks : UsagePresent(t) => FirstFallbackReturned(t)

MissingProviderSkippedWithUsage ==
    \A t \in Tasks : UsagePresent(t) => MissingProviderSkipped(t)

OneOfThreeOutcomesWithUsage ==
    \A t \in Tasks : UsagePresent(t) => OneOfThreeOutcomes(t)

ReferenceRuleWithUsage ==
    \A t \in Tasks : UsagePresent(t) => ReferenceRule(t)

\* With identifiers that are configured once, the registry of a Proxy holds
\* one adapter for each provider entry.
DistinctIDs ==
    \A i, j \in 1..Len(cfgProviders) : cfgProviders[i].ID = cfgProviders[j].ID => i = j

OneAdapterPerDistinctProvider == DistinctIDs => C19_OneAdapterPerProvider

\* A configuration that went through config.Load holds no entry of an unknown
\* kind, and NewProxy registers no adapter around a nil model for it.
LoadRejectsUnknownKind ==
    (source = "file" /\ boot \in {"config", "ready"}) =>
        /\ UnknownKindEntries = {}
        /\ \A p \in providers : adapters[p] # NilModelAdapter

\* For provider entries that config.Load and NewProxy accept, NewProxy leaves
\* the Proxy that the specifications of the running gateway start from.
NewProxyBuildsRegistry ==
    (boot = "ready" /\ cfgProviders \in ValidProviderLists) =>
        /\ providers = ConfiguredIDs
        /\ \A i \in 1..Len(cfgProviders) :
               adapters[cfgProviders[i].ID] = AdapterOfKind(cfgProviders[i].Provider)

\* An adapter that hands the context to its upstream call never answers a
\* call that is in flight when the context is cancelled.
CancelReachesUpstreamAdapters ==
    [][\A t \in Tasks :
          ( /\ pc[t] = "call"
            /\ AdapterOf(t) = LangchainAdapter
            /\ ctxDone[t]
            /\ pc'[t] # "call" ) =>
              returned'[t][Len(returned'[t])] = Nil]_vars

\* The three counters of a key add up when no dispatch is between its
\* increments and every response reported counts that add up: the handler
\* adds the reported total, it computes none.
ConsistentUsage(t) ==
    \A i \in 1..Len(returned[t]) :
        (returned[t][i] # Nil /\ returned[t][i][1].Usage # Nil) =>
            LET u == returned[t][i][1].Usage[1]
            IN  u.PromptTokens >= 0 /\ u.TotalTokens = u.PromptTokens + u.CompletionTokens

TotalIsSumAtRest ==
    (\A t \in Tasks : pc[t] \notin {"completion", "total"} /\ ConsistentUsage(t)) =>
        C21_TotalIsSum

\* What the HTTP-JSON adapter does ensure: an error and no response for every
\* status other than 200 and every body that does not decode, a response for
\* a 200 status with a body that decodes and for nothing else, and the status
\* code and the body in the error of a status other than 200.
HTTPErrorsButDecodeDetails ==
    opPc = "done" =>
        /\ opResult.err # Nil <=> opResult.resp = Nil
        /\ opResult.resp # Nil <=>
               /\ Answered
               /\ httpReply[1].StatusCode = 200
               /\ StartsWithValue(httpReply[1].Body)
        /\ (Answered /\ httpReply[1].StatusCode # 200) =>
               Carries(opResult.err[1], httpReply[1].StatusCode, httpReply[1].Body)

\* The candidate list and the bound on the invocations hold in every state,
\* every dispatch ends, and it ends by returning unless an adapter answered
\* without usage.
CandidateListAlwaysBounded == \A t \in Tasks : CandidateListBounded(t)

DispatchEnds == \A t \in Tasks : Started(t) ~> Ended(t)

DispatchReturnsWithUsage ==
    \A t \in Tasks : Started(t) ~> (pc[t] = "done" \/ ~UsagePresent(t))

\* C32 with the adapters that NewProxy builds: the synthetic adapter echoes
\* the model of the attempt request, and no response of the langchain
\* adapter gets as far as a counter.
KeyIsDisplayNameOfBuiltAdapters ==
    (\A p \in providers : adapters[p] \in {DummyAdapter, LangchainAdapter}) =>
        C32_KeyIsDisplayName
====
